---- MODULE Spec2Model ----
(***************************************************************************)
(* Zyncoder library (src/zyncoder.c): switch debouncer, quadrature encoder *)
(* decoder, outbound MIDI byte ring, realtime callback and the ring of     *)
(* returned MIDI events.                                                   *)
(*                                                                         *)
(* Build modelled: Jack MIDI (USE_ALSASEQ_MIDI undefined), native GPIO     *)
(* (MCP23017_ENCODERS undefined): the pin levels a handler samples with    *)
(* digitalRead are inputs of the handler.                                  *)
(*                                                                         *)
(* Time.  The code measures time in microseconds and keeps intervals in    *)
(* 32-bit variables (unsigned int dtus, int dtus).  The model counts time  *)
(* in ticks of 8 us, so that the 32-bit width 2^32 us is 2^29 ticks and    *)
(* every value fits TLC's integers; every clock reading of the             *)
(* model is a multiple of 8 us.  Us(n) converts a microsecond literal of   *)
(* the source to ticks.  The clock is kept modulo 2^32 us, which is the    *)
(* whole of what the code's 32-bit differences depend on.                  *)
(***************************************************************************)
EXTENDS Integers, Sequences, FiniteSets, TLC

(***************************************************************************)
(* Sizes of the model.  The tables and the ring of returned events have    *)
(* their sizes from zyncoder.h; the model uses small ones.                 *)
(***************************************************************************)
MAX_NUM_ZYNSWITCHES == 2
MaxSwitchSteps == 5
MAX_NUM_ZYNCODERS == 2
MaxEncSteps == 3
MaxUpEdges == 6
MaxOutSteps == 5
MaxStepSteps == 5
\* Free bytes of an empty jack ring (jack_ringbuffer_create(3*256) in the source).
OutRingSpace == 9
InRingSpace == 4
ZYNMIDI_BUFFER_SIZE == 3
\* write_zynmidi calls in a run: enough to go round the ring twice.
MaxEvents == 2 * ZYNMIDI_BUFFER_SIZE + 1

\* ZYNCODER_TICKS_PER_RETENT of zyncoder.h: raw ticks per detent, and the
\* number of slots of the interval history dtus[].
ZYNCODER_TICKS_PER_RETENT == 4

Us(n) == n \div 8
\* 2^32 us in ticks: the width of unsigned int / int intervals.
ClockMod == 2^29
\* (int)x for a 32-bit difference x kept as an unsigned value.
ToInt(x) == IF x >= ClockMod \div 2 THEN x - ClockMod ELSE x

VARIABLES
    now,            \* the last reading of CLOCK_MONOTONIC, in ticks, modulo 2^32 us
    zynswitches,    \* zynswitches[i]: enabled, pin, tsus, dtus, status
    getcall,        \* the application inside get_zynswitch_dtus: pc, i, dtus
    held,           \* per switch, the durations recorded and those returned
    zynmidi_buffer,         \* the ring of returned events: its slots
    zynmidi_buffer_read,    \* its read index
    zynmidi_buffer_write,   \* its write index
    wr,             \* the realtime callback inside write_zynmidi: pc, ev, nptr, msg
    rd,             \* the application inside read_zynmidi: pc, ev
    scanned,        \* the Program-Change messages whose write_zynmidi returned 1
    returned,       \* the events read_zynmidi has returned
    zyncoders,      \* zyncoders[i]: the encoder table
    jack_ring_output_buffer,    \* the outbound byte ring: the bytes queued, oldest first
    jack_ring_input_buffer,     \* the inbound byte ring: the number of bytes stored
    port_out,       \* the events handed to the Jack output port in the last period
    sends,          \* number of send_zyncoder calls so far
    override,       \* the realtime callback inside its Control-Change loop: pc, j, ev, nframes
    enq,            \* a caller inside jack_write_midi_event: pc, msg
    period,         \* the realtime callback inside its output half: pc, nframes, nb, data
    outlog,         \* the messages accepted for output, the events emitted, faults
    steps,          \* number of operations run so far
    last            \* the last operation that ran: its name, inputs and result

ringvars == <<zynmidi_buffer, zynmidi_buffer_read, zynmidi_buffer_write,
              wr, rd, scanned, returned>>
outvars == <<enq, period, outlog>>
encvars == <<zyncoders, jack_ring_output_buffer, jack_ring_input_buffer, port_out, sends,
             override, outvars>>
switchvars == <<zynswitches, getcall, held>>
vars == <<now, switchvars, ringvars, encvars, steps, last>>

Switches == 0 .. MAX_NUM_ZYNSWITCHES - 1
Levels == {0, 1}
\* The frame counts of a period.
Frames == {1, 64}

\* last: op the operation, i its index argument, a its other argument, from
\* the encoder's last_encoded before an edge, pre its subvalue (an edge) or
\* value (a set) before the operation, ret what the operation returned, w
\* what its call of jack_write_midi_event returned (1: it made none).  For
\* jack_process, a is nframes, from the number of input messages it scanned
\* and pre the message scanned, packed as PackEvent packs it.
OpW(o, i, a, from, pre, r, w) ==
    [op |-> o, i |-> i, a |-> a, from |-> from, pre |-> pre, ret |-> r, w |-> w]
Op(o, i, a, r) == OpW(o, i, a, 0, 0, r, 1)
NoOp == Op("init", 0, 0, 0)

\* The call op(i, ...) that returns at its test of the index: nothing is
\* changed, and the value returned, if any, is NULL or 0.
Ignored(op, i) ==
    /\ steps' = steps + 1
    /\ last' = Op(op, i, 0, 0)
    /\ UNCHANGED <<now, switchvars, ringvars, encvars>>

\* The clock when the library is initialised, and the time from one reading
\* of the clock to the next.
InitClocks == {Us(40000), Us(2000000000)}
SwitchDeltas == {Us(400), Us(48000)}
ClockAfter(dt) == (now + dt) % ClockMod

----------------------------------------------------------------------------
(* GPIO switches *)

ZeroSwitch == [enabled |-> 0, pin |-> 0, tsus |-> 0, dtus |-> 0, status |-> 0]

\* int dtus=tsus-zynswitch->tsus;
SwitchDelta(sw, tsus) == ToInt((tsus - sw.tsus) % ClockMod)

\* An edge handler without the test status==zynswitch->status. That test
\* distinguishes update_zynswitch from this one.
UpdateSwitchEveryEdge(sw, status, tsus) ==
    IF sw.enabled = 0 THEN sw
    ELSE LET s1 == [sw EXCEPT !.status = status] IN
         IF status = 1
         THEN LET dtus == ToInt((tsus - sw.tsus) % ClockMod) IN
              IF dtus < Us(1000) THEN s1
              ELSE IF sw.tsus > 0 THEN [s1 EXCEPT !.dtus = dtus] ELSE s1
         ELSE [s1 EXCEPT !.tsus = tsus]

\* update_zynswitch from the `enabled` test on: the switch after an edge
\* notification that sampled `status` at clock reading `tsus`.
UpdateSwitch(sw, status, tsus) ==
    IF sw.enabled = 0 THEN sw
    ELSE IF status = sw.status THEN sw
    ELSE LET s1 == [sw EXCEPT !.status = status] IN
         IF status = 1
         THEN LET dtus == SwitchDelta(sw, tsus) IN
              IF dtus < Us(1000) THEN s1
              ELSE IF sw.tsus > 0 THEN [s1 EXCEPT !.dtus = dtus] ELSE s1
         ELSE [s1 EXCEPT !.tsus = tsus]

\* Whether the edge records a held duration (zynswitch->dtus=dtus).
Commits(sw, status, tsus) ==
    /\ sw.enabled # 0 /\ status # sw.status /\ status = 1
    /\ SwitchDelta(sw, tsus) >= Us(1000)
    /\ sw.tsus > 0

\* The record of durations: one more recorded for switch i, the record of
\* switch i started anew, one more returned (0 tells that none was held).
Recorded(h, i, dtus) == [h EXCEPT !.recorded[i] = Append(@, dtus)]
Anew(h, i) == [h EXCEPT !.recorded[i] = <<>>, !.returned[i] = <<>>]
Returned(h, i, dtus) == IF dtus = 0 THEN h ELSE [h EXCEPT !.returned[i] = Append(@, dtus)]

\* Whether update_zynswitch gets as far as clock_gettime.
ReadsClock(sw, status) == sw.enabled # 0 /\ status # sw.status

\* update_zynswitch(i): the interrupt handler of switch i.
update_zynswitch(i) ==
    \E status \in Levels, dt \in SwitchDeltas :
        LET tsus == ClockAfter(dt) IN
        /\ steps < MaxSwitchSteps
        /\ zynswitches' = [zynswitches EXCEPT ![i] = UpdateSwitch(@, status, tsus)]
        /\ held' = IF Commits(zynswitches[i], status, tsus)
                   THEN Recorded(held, i, SwitchDelta(zynswitches[i], tsus))
                   ELSE held
        /\ now' = IF ReadsClock(zynswitches[i], status) THEN tsus ELSE now
        /\ steps' = steps + 1
        /\ last' = Op("update_zynswitch", i, status, 0)
        /\ UNCHANGED <<getcall, ringvars, encvars>>

\* The pins a switch can be set up on: none, a native GPIO, an expander pin.
SwitchPins == {0, 5, 100}

\* setup_zynswitch(i, pin); on a native GPIO pin it ends with update_zynswitch(i).
setup_zynswitch(i, pin) ==
    \E status \in Levels, dt \in SwitchDeltas :
        LET tsus == ClockAfter(dt)
            sw == [enabled |-> 1, pin |-> pin, tsus |-> 0, dtus |-> 0, status |-> 0]
        IN /\ steps < MaxSwitchSteps
           /\ zynswitches' = [zynswitches EXCEPT ![i] =
                  IF pin > 0 /\ pin < 100 THEN UpdateSwitch(sw, status, tsus) ELSE sw]
           /\ now' = IF pin > 0 /\ pin < 100 /\ ReadsClock(sw, status) THEN tsus ELSE now
           /\ steps' = steps + 1
           /\ last' = Op("setup_zynswitch", i, pin, 0)
           /\ held' = Anew(held, i)
           /\ UNCHANGED <<getcall, ringvars, encvars>>

\* The levels the poll samples, one per switch, as one number: bit i is the
\* level of switch i.
RECURSIVE LevelsCode(_, _)
LevelsCode(levels, i) ==
    IF i >= MAX_NUM_ZYNSWITCHES THEN 0 ELSE levels[i] + 2 * LevelsCode(levels, i + 1)
Level(code, i) == (code \div (2 ^ i)) % 2

\* The loop of update_expanded_zynswitches from index i on, with the clock
\* reading tsus taken before the loop: the switch table afterwards. On
\* dtus<1000 the function returns, which ends the loop.
RECURSIVE PollFrom(_, _, _, _)
PollFrom(sws, i, levels, tsus) ==
    IF i >= MAX_NUM_ZYNSWITCHES THEN sws
    ELSE LET sw == sws[i] IN
         IF sw.enabled = 0 \/ sw.pin < 100 THEN PollFrom(sws, i + 1, levels, tsus)
         ELSE IF levels[i] = sw.status THEN PollFrom(sws, i + 1, levels, tsus)
         ELSE LET s1 == [sw EXCEPT !.status = levels[i]] IN
              IF levels[i] = 1
              THEN LET dtus == SwitchDelta(sw, tsus) IN
                   IF dtus < Us(1000) THEN [sws EXCEPT ![i] = s1]
                   ELSE PollFrom([sws EXCEPT ![i] =
                                     IF sw.tsus > 0 THEN [s1 EXCEPT !.dtus = dtus] ELSE s1],
                                 i + 1, levels, tsus)
              ELSE PollFrom([sws EXCEPT ![i] = [s1 EXCEPT !.tsus = tsus]],
                            i + 1, levels, tsus)

\* Whether the pass gets as far as switch i: no switch before it made the
\* function return.
PollReaches(sws, i, levels, tsus) ==
    \A j \in 0 .. i - 1 :
        ~(/\ sws[j].enabled # 0 /\ sws[j].pin >= 100
          /\ levels[j] # sws[j].status /\ levels[j] = 1
          /\ SwitchDelta(sws[j], tsus) < Us(1000))

\* The time from one pass of poll_zynswitches to the next: usleep of
\* poll_zynswitches_us (10000) or longer.
PollDeltas == {Us(10000), Us(48000)}

\* update_expanded_zynswitches(): one pass of the poll thread.
update_expanded_zynswitches ==
    \E levels \in [Switches -> Levels], dt \in PollDeltas :
        LET tsus == ClockAfter(dt) IN
        /\ steps < MaxSwitchSteps
        /\ zynswitches' = PollFrom(zynswitches, 0, levels, tsus)
        /\ now' = tsus
        /\ steps' = steps + 1
        /\ last' = Op("update_expanded_zynswitches", 0, LevelsCode(levels, 0), 0)
        /\ held' = [held EXCEPT !.recorded = [i \in Switches |->
                       IF /\ PollReaches(zynswitches, i, levels, tsus)
                          /\ zynswitches[i].pin >= 100
                          /\ Commits(zynswitches[i], levels[i], tsus)
                       THEN Append(@[i], SwitchDelta(zynswitches[i], tsus))
                       ELSE @[i]]]
        /\ UNCHANGED <<getcall, ringvars, encvars>>

\* get_zynswitch_dtus(i): the held duration, read and cleared.
get_zynswitch_dtus(i) ==
    /\ steps < MaxSwitchSteps
    /\ zynswitches' = [zynswitches EXCEPT ![i].dtus = 0]
    /\ steps' = steps + 1
    /\ last' = Op("get_zynswitch_dtus", i, 0, zynswitches[i].dtus)
    /\ held' = Returned(held, i, zynswitches[i].dtus)
    /\ UNCHANGED <<now, getcall, ringvars, encvars>>

\* get_zynswitch_dtus(i), statement by statement. The application calls it
\* on its own thread while update_zynswitch runs on the interrupt thread:
\* nothing orders its read and its store of zynswitches[i].dtus with respect
\* to the handler.
GetIdle == [pc |-> "idle", i |-> 0, dtus |-> 0]

\* unsigned int dtus=zynswitches[i].dtus;
GetRead(i) ==
    /\ getcall.pc = "idle"
    /\ steps < MaxSwitchSteps
    /\ getcall' = [pc |-> "reset", i |-> i, dtus |-> zynswitches[i].dtus]
    /\ UNCHANGED <<now, zynswitches, held, ringvars, encvars, steps, last>>

\* zynswitches[i].dtus=0; return dtus;
GetReset ==
    /\ getcall.pc = "reset"
    /\ zynswitches' = [zynswitches EXCEPT ![getcall.i].dtus = 0]
    /\ held' = Returned(held, getcall.i, getcall.dtus)
    /\ getcall' = GetIdle
    /\ steps' = steps + 1
    /\ last' = Op("get_zynswitch_dtus", getcall.i, 0, getcall.dtus)
    /\ UNCHANGED <<now, ringvars, encvars>>

----------------------------------------------------------------------------
(* MIDI events to return: zynmidi_buffer, written by the realtime callback *)
(* (jack_process -> write_zynmidi) and read by the application             *)
(* (read_zynmidi).  Neither index is atomic or volatile and there is no    *)
(* lock: each read and write of an index or a slot is a step of its own.   *)

Slots == 0 .. ZYNMIDI_BUFFER_SIZE - 1

\* The event jack_process hands to write_zynmidi for the message ev.buffer:
\* (ev.buffer[0])|(ev.buffer[1]<<8)|(ev.buffer[2]<<16)
PackEvent(b) == b[1] + b[2] * 256 + b[3] * 65536

\* What init_zyncoder leaves: every slot 0, both indices 0.
InitRingVars ==
    /\ zynmidi_buffer = [k \in Slots |-> 0]
    /\ zynmidi_buffer_read = 0
    /\ zynmidi_buffer_write = 0
    /\ wr = [pc |-> "idle", ev |-> 0, nptr |-> 0, msg |-> <<0, 0, 0>>, n |-> 0]
    /\ rd = [pc |-> "idle", ev |-> 0]
    /\ scanned = <<>>
    /\ returned = <<>>

\* The k-th Program-Change message that arrives at the input port: status
\* nibble 0xC, the program number tells the messages apart.
PCMessages(k) == {<<195, k + 4, 0>>, <<207, k + 4, 127>>}

\* jack_process reaches a Program-Change message and calls write_zynmidi:
\* int nptr=zynmidi_buffer_write+1; if (nptr>=ZYNMIDI_BUFFER_SIZE) nptr=0;
WriteBegin ==
    /\ wr.pc = "idle"
    /\ wr.n < MaxEvents
    /\ \E b \in PCMessages(wr.n + 1) :
          wr' = [pc |-> "cmp", ev |-> PackEvent(b), msg |-> b, n |-> wr.n + 1,
                 nptr |-> IF zynmidi_buffer_write + 1 >= ZYNMIDI_BUFFER_SIZE
                          THEN 0 ELSE zynmidi_buffer_write + 1]
    /\ UNCHANGED <<now, switchvars, encvars, steps, last, zynmidi_buffer, zynmidi_buffer_read, zynmidi_buffer_write,
                   rd, scanned, returned>>

\* A writer that never finds the ring full. The test nptr==zynmidi_buffer_read
\* distinguishes write_zynmidi from this one.
WriteNeverFull ==
    /\ wr.pc = "cmp"
    /\ wr' = [wr EXCEPT !.pc = "store"]
    /\ UNCHANGED <<now, switchvars, encvars, steps, last, zynmidi_buffer, zynmidi_buffer_read, zynmidi_buffer_write,
                   rd, scanned, returned>>

\* if (nptr==zynmidi_buffer_read) return 0;
WriteCompare ==
    /\ wr.pc = "cmp"
    /\ wr' = [wr EXCEPT !.pc = IF wr.nptr = zynmidi_buffer_read THEN "idle" ELSE "store"]
    /\ UNCHANGED <<now, switchvars, encvars, steps, last, zynmidi_buffer, zynmidi_buffer_read, zynmidi_buffer_write,
                   rd, scanned, returned>>

\* zynmidi_buffer[zynmidi_buffer_write]=ev;
WriteStore ==
    /\ wr.pc = "store"
    /\ zynmidi_buffer' = [zynmidi_buffer EXCEPT ![zynmidi_buffer_write] = wr.ev]
    /\ wr' = [wr EXCEPT !.pc = "advance"]
    /\ UNCHANGED <<now, switchvars, encvars, steps, last, zynmidi_buffer_read, zynmidi_buffer_write, rd, scanned, returned>>

\* zynmidi_buffer_write=nptr; return 1;
WriteAdvance ==
    /\ wr.pc = "advance"
    /\ zynmidi_buffer_write' = wr.nptr
    /\ wr' = [wr EXCEPT !.pc = "idle"]
    /\ scanned' = Append(scanned, wr.msg)
    /\ UNCHANGED <<now, switchvars, encvars, steps, last, zynmidi_buffer, zynmidi_buffer_read, rd, returned>>

\* if (zynmidi_buffer_read==zynmidi_buffer_write) return 0;
ReadBegin ==
    /\ rd.pc = "idle"
    /\ Len(returned) < MaxEvents
    /\ rd' = [rd EXCEPT !.pc = IF zynmidi_buffer_read = zynmidi_buffer_write
                                 THEN "idle" ELSE "load"]
    /\ UNCHANGED <<now, switchvars, encvars, steps, last, zynmidi_buffer, zynmidi_buffer_read, zynmidi_buffer_write,
                   wr, scanned, returned>>

\* unsigned int ev=zynmidi_buffer[zynmidi_buffer_read++]; the slot is read,
ReadLoad ==
    /\ rd.pc = "load"
    /\ rd' = [pc |-> "incr", ev |-> zynmidi_buffer[zynmidi_buffer_read]]
    /\ UNCHANGED <<now, switchvars, encvars, steps, last, zynmidi_buffer, zynmidi_buffer_read, zynmidi_buffer_write,
                   wr, scanned, returned>>

\* and the index is stored back incremented, before it is wrapped.
ReadIncrement ==
    /\ rd.pc = "incr"
    /\ zynmidi_buffer_read' = zynmidi_buffer_read + 1
    /\ rd' = [rd EXCEPT !.pc = "wrap"]
    /\ UNCHANGED <<now, switchvars, encvars, steps, last, zynmidi_buffer, zynmidi_buffer_write, wr, scanned, returned>>

\* if (zynmidi_buffer_read>=ZYNMIDI_BUFFER_SIZE) zynmidi_buffer_read=0; return ev;
ReadWrap ==
    /\ rd.pc = "wrap"
    /\ zynmidi_buffer_read' = IF zynmidi_buffer_read >= ZYNMIDI_BUFFER_SIZE
                              THEN 0 ELSE zynmidi_buffer_read
    /\ rd' = [rd EXCEPT !.pc = "idle"]
    /\ returned' = Append(returned, rd.ev)
    /\ UNCHANGED <<now, switchvars, encvars, steps, last, zynmidi_buffer, zynmidi_buffer_write, wr, scanned>>

----------------------------------------------------------------------------
(* The outbound byte ring (jack_ring_output_buffer) *)

\* jack_ringbuffer_write_space: the bytes still free.
WriteSpace(ring) == OutRingSpace - Len(ring)

\* A write without the test of the free space. The refusal of a message that
\* does not fit distinguishes jack_write_midi_event from this one.
WriteUnchecked(ring, ctrl_event) == [ring |-> ring \o ctrl_event, ret |-> 0]

\* jack_write_midi_event(ctrl_event): the ring afterwards and the status.
jack_write_midi_event(ring, ctrl_event) ==
    IF WriteSpace(ring) >= 3
    THEN [ring |-> ring \o ctrl_event, ret |-> 0]
    ELSE [ring |-> ring, ret |-> -1]

\* The log of the outbound path after a call of jack_write_midi_event with
\* result w (w.ret is 1 when there was no call): a message is accepted
\* when the call returned 0, and it is then the last 3 bytes of the ring.
LogWrite(log, w) ==
    IF w.ret = 0
    THEN [log EXCEPT !.accepted = Append(@, SubSeq(w.ring, Len(w.ring) - 2, Len(w.ring)))]
    ELSE log

\* The log after a period that handed `events` to the output port.
LogPeriod(log, events, fault) ==
    [log EXCEPT !.emitted = @ \o events, !.faulted = @ \/ fault]

\* (unsigned char)x
U8(x) == x % 256

\* zynmidi_set_control(chan, ctrl, val): the three bytes it queues.
ControlEvent(chan, ctrl, val) == <<U8(176 + U8(chan)), U8(ctrl), U8(val)>>

\* zynmidi_set_program(chan, prgm): the three bytes it queues.
ProgramEvent(chan, prgm) == <<U8(192 + U8(chan)), U8(prgm), 0>>

----------------------------------------------------------------------------
(* Rotary encoders *)

Encoders == 0 .. MAX_NUM_ZYNCODERS - 1

\* zyncoders + i for i up to MAX_NUM_ZYNCODERS: the table, and at index
\* MAX_NUM_ZYNCODERS the memory that follows it, read as a struct zyncoder_st.
EncoderSlots == 0 .. MAX_NUM_ZYNCODERS

ZeroEncoder ==
    [enabled |-> 0, pin_a |-> 0, pin_b |-> 0, midi_chan |-> 0, midi_ctrl |-> 0,
     osc_path |-> 0, max_value |-> 0, step |-> 0, subvalue |-> 0, value |-> 0,
     last_encoded |-> 0, tsus |-> 0, dtus |-> <<0, 0, 0, 0>>]

\* ZYNCODER_TICKS_PER_RETENT*x in unsigned int: the product modulo 2^32.
TimesTicks(x) == (x % (2^30)) * ZYNCODER_TICKS_PER_RETENT

\* a-b >= c in unsigned int: the difference wraps when b > a.
MinusGE(a, b, c) ==
    IF a >= b THEN a - b >= c ELSE ((b - a) + c - 1) \div 2 <= 2147483647

\* unsigned int dtus=tsus-zyncoder->tsus;
EncoderDelta(z, tsus) == (tsus - z.tsus) % ClockMod

\* dtus_avg: dtus plus the four stored intervals, in unsigned int (the sum
\* modulo 2^32), divided by ZYNCODER_TICKS_PER_RETENT+1.  In microseconds.
AddU(a, b) == (a + b) % ClockMod
DtusSum(dtus, h) == AddU(AddU(AddU(AddU(dtus, h[1]), h[2]), h[3]), h[4])
DtusAvg(dtus, h) ==
    LET t == DtusSum(dtus, h)
        n == ZYNCODER_TICKS_PER_RETENT + 1
    IN (t \div n) * 8 + ((t % n) * 8) \div n

\* dsval: the step of subvalue for an average interval.
Dsval(dtus_avg) ==
    IF dtus_avg < 10000 THEN ZYNCODER_TICKS_PER_RETENT
    ELSE IF dtus_avg < 30000 THEN ZYNCODER_TICKS_PER_RETENT \div 2
    ELSE 1

EncoderUp(z, encoded) == (z.last_encoded * 4 + encoded) \in {13, 4, 2, 11}
EncoderDown(z, encoded) ==
    ~EncoderUp(z, encoded) /\ (z.last_encoded * 4 + encoded) \in {14, 7, 1, 8}

\* An up tick without the clamp at max_value. The clamp of update_zyncoder
\* distinguishes the function from this one.
SubvalueUpUnclamped(z, dsval) == z.subvalue + dsval

\* subvalue after an up tick of dsval.
SubvalueUp(z, dsval) ==
    IF MinusGE(z.max_value, z.subvalue, dsval) THEN z.subvalue + dsval ELSE z.max_value

\* subvalue after a down tick of dsval.
SubvalueDown(z, dsval) ==
    IF z.subvalue >= dsval THEN z.subvalue - dsval ELSE 0

\* update_zyncoder in continuous mode (step==0), from the clock reading on.
UpdateContinuous(z, encoded, tsus) ==
    LET up == EncoderUp(z, encoded)
        down == EncoderDown(z, encoded)
        z1 == [z EXCEPT !.last_encoded = encoded]
        dtus == EncoderDelta(z, tsus)
        dsval == Dsval(DtusAvg(dtus, z.dtus))
        subvalue == IF up THEN SubvalueUp(z, dsval)
                    ELSE IF down THEN SubvalueDown(z, dsval)
                    ELSE z.subvalue
        value == IF up THEN subvalue \div ZYNCODER_TICKS_PER_RETENT
                 ELSE IF down THEN (subvalue + ZYNCODER_TICKS_PER_RETENT - 1)
                                       \div ZYNCODER_TICKS_PER_RETENT
                 ELSE -1
        z2 == [z1 EXCEPT !.dtus = <<z.dtus[2], z.dtus[3], z.dtus[4], dtus>>,
                         !.subvalue = subvalue, !.tsus = tsus]
    IN IF dtus < Us(1000) THEN [z |-> z1, send |-> FALSE]
       ELSE IF value >= 0 /\ z.value # value
            THEN [z |-> [z2 EXCEPT !.value = value], send |-> TRUE]
            ELSE [z |-> z2, send |-> FALSE]

\* A stepped-mode edge that dispatches on every up or down transition. The
\* test last_value!=zyncoder->value distinguishes update_zyncoder from this
\* one.
UpdateSteppedSendsOnEdge(z, encoded) ==
    LET up == EncoderUp(z, encoded)
        down == EncoderDown(z, encoded)
        clamped == IF z.value > z.max_value THEN z.max_value ELSE z.value
        value == IF z.max_value - clamped >= z.step /\ up THEN clamped + z.step
                 ELSE IF clamped >= z.step /\ down THEN clamped - z.step
                 ELSE clamped
    IN [z |-> [z EXCEPT !.last_encoded = encoded, !.value = value],
        send |-> up \/ down]

\* A stepped-mode edge without the clamp of value at max_value. The
\* statement before the up/down tests distinguishes update_zyncoder from
\* this one.
UpdateSteppedUnclamped(z, encoded) ==
    LET up == EncoderUp(z, encoded)
        down == EncoderDown(z, encoded)
        value == IF MinusGE(z.max_value, z.value, z.step) /\ up THEN z.value + z.step
                 ELSE IF z.value >= z.step /\ down THEN z.value - z.step
                 ELSE z.value
    IN [z |-> [z EXCEPT !.last_encoded = encoded, !.value = value],
        send |-> z.value # value]

\* update_zyncoder in stepped mode (step>0).
UpdateStepped(z, encoded) ==
    LET up == EncoderUp(z, encoded)
        down == EncoderDown(z, encoded)
        clamped == IF z.value > z.max_value THEN z.max_value ELSE z.value
        value == IF z.max_value - clamped >= z.step /\ up THEN clamped + z.step
                 ELSE IF clamped >= z.step /\ down THEN clamped - z.step
                 ELSE clamped
    IN [z |-> [z EXCEPT !.last_encoded = encoded, !.value = value],
        send |-> z.value # value]

\* update_zyncoder after the index and `enabled` tests: the encoder afterwards
\* and whether send_zyncoder is called.
UpdateEncoder(z, encoded, tsus) ==
    IF z.step = 0 THEN UpdateContinuous(z, encoded, tsus) ELSE UpdateStepped(z, encoded)

\* send_zyncoder(i) for the enabled encoder z: the outbound ring afterwards and
\* the status of jack_write_midi_event (1 when it is not called: the message
\* goes to OSC or nowhere).
SendEncoder(z, ring) ==
    IF z.midi_ctrl > 0
    THEN jack_write_midi_event(ring, ControlEvent(z.midi_chan, z.midi_ctrl, z.value))
    ELSE [ring |-> ring, ret |-> 1]

\* update_zyncoder(i) sampling the levels MSB and LSB, dt after the last
\* reading of the clock.
UpdateEdge(i, MSB, LSB, dt) ==
    LET tsus == ClockAfter(dt)
        z == zyncoders[i]
        r == UpdateEncoder(z, MSB * 2 + LSB, tsus)
        w == IF r.send THEN SendEncoder(r.z, jack_ring_output_buffer)
             ELSE [ring |-> jack_ring_output_buffer, ret |-> 1]
    IN /\ zyncoders' = [zyncoders EXCEPT ![i] = IF z.enabled = 0 THEN z ELSE r.z]
       /\ jack_ring_output_buffer' = IF z.enabled = 0 THEN jack_ring_output_buffer ELSE w.ring
       /\ sends' = IF z.enabled # 0 /\ r.send THEN sends + 1 ELSE sends
       /\ now' = IF z.enabled # 0 /\ z.step = 0 THEN tsus ELSE now
       /\ steps' = steps + 1
       /\ last' = OpW("update_zyncoder", i, MSB * 2 + LSB, z.last_encoded, z.subvalue, 0,
                      IF z.enabled = 0 THEN 1 ELSE w.ret)
       /\ outlog' = IF z.enabled = 0 THEN outlog ELSE LogWrite(outlog, w)
       /\ UNCHANGED <<switchvars, ringvars, jack_ring_input_buffer, port_out, override,
                      enq, period>>

\* Time from one encoder edge to the next.
EncoderDeltas == {Us(400), Us(8000), Us(48000)}

\* update_zyncoder(i): the interrupt handler of encoder i.
update_zyncoder(i) ==
    /\ steps < MaxEncSteps
    /\ \E MSB \in Levels, LSB \in Levels, dt \in EncoderDeltas : UpdateEdge(i, MSB, LSB, dt)

\* setup_zyncoder(i, pin_a, pin_b, midi_chan, midi_ctrl, osc_path, value, max_value, step)
SetupEncoder(z, pin_a, pin_b, midi_chan, midi_ctrl, osc_path, value, max_value, step) ==
    LET v == IF value > max_value THEN max_value ELSE value
        z1 == [z EXCEPT !.midi_chan = IF midi_chan > 15 THEN 0 ELSE midi_chan,
                        !.midi_ctrl = IF midi_ctrl > 127 THEN 1 ELSE midi_ctrl,
                        !.osc_path = osc_path,
                        !.step = step,
                        !.value = v,
                        !.subvalue = IF step > 0 THEN 0 ELSE TimesTicks(v),
                        !.max_value = IF step > 0 THEN max_value ELSE TimesTicks(max_value)]
    IN IF z.enabled = 0 \/ z.pin_a # pin_a \/ z.pin_b # pin_b
       THEN [z1 EXCEPT !.enabled = 1, !.pin_a = pin_a, !.pin_b = pin_b,
                       !.last_encoded = 0, !.tsus = 0]
       ELSE z1

\* The configurations the application sets an encoder up with:
\* midi_chan, midi_ctrl, value, max_value, step.
EncoderConfigs ==
    { <<1, 10, 0, 127, 0>>, <<1, 10, 1, 2, 0>>, <<16, 128, 5, 3, 2>> }

\* setup_zyncoder for encoder i on its pins, with configuration c.
\* It returns NULL (0) when i > MAX_NUM_ZYNCODERS, else zyncoders + i (1).
Setup(i, c) ==
    IF i > MAX_NUM_ZYNCODERS THEN Ignored("setup_zyncoder", i)
    ELSE /\ zyncoders' = [zyncoders EXCEPT ![i] =
                SetupEncoder(@, 2 * i + 2, 2 * i + 3, c[1], c[2], 0, c[3], c[4], c[5])]
         /\ steps' = steps + 1
         /\ last' = Op("setup_zyncoder", i, c[4], 1)
         /\ UNCHANGED <<now, switchvars, ringvars, jack_ring_output_buffer,
                        jack_ring_input_buffer, port_out, sends, override, outvars>>

setup_zyncoder(i) ==
    /\ steps < MaxEncSteps
    /\ \E c \in EncoderConfigs : Setup(i, c)

\* get_value_zyncoder(i) for the encoder z.
GetValue(z) == z.value

\* set_value_zyncoder(i, v) after the index and `enabled` tests.
SetValue(z, v) ==
    IF z.step = 0
    THEN LET v4 == TimesTicks(v)
             subvalue == IF v4 > z.max_value THEN z.max_value ELSE v4
         IN [z EXCEPT !.subvalue = subvalue,
                      !.value = subvalue \div ZYNCODER_TICKS_PER_RETENT]
    ELSE [z EXCEPT !.value = IF v > z.max_value THEN z.max_value ELSE v]

\* Sending only when the value changed, as update_zyncoder does.
SendsOnChange(z, z1) == z.value # z1.value

\* set_value_zyncoder calls send_zyncoder whether or not the value changed
\* (the test of last_value is commented out).
SetValueSends(z, z1) == TRUE

\* The values the application sets: small ones, and one above 2^30.
SetValues == {1, 3, 2^30 + 1}

\* set_value_zyncoder(i, v).
SetValueCall(i, v) ==
    LET z == zyncoders[i]
        z1 == SetValue(z, v)
        send == z.enabled # 0 /\ SetValueSends(z, z1)
        w == IF send THEN SendEncoder(z1, jack_ring_output_buffer)
             ELSE [ring |-> jack_ring_output_buffer, ret |-> 1]
    IN /\ zyncoders' = [zyncoders EXCEPT ![i] = IF z.enabled = 0 THEN z ELSE z1]
       /\ jack_ring_output_buffer' = w.ring
       /\ sends' = IF send THEN sends + 1 ELSE sends
       /\ steps' = steps + 1
       /\ last' = OpW("set_value_zyncoder", i, v, 0, z.value, 0, w.ret)
       /\ outlog' = LogWrite(outlog, w)
       /\ UNCHANGED <<now, switchvars, ringvars, jack_ring_input_buffer, port_out, override,
                      enq, period>>

set_value_zyncoder(i) ==
    /\ steps < MaxEncSteps
    /\ \E v \in SetValues : SetValueCall(i, v)

----------------------------------------------------------------------------
(* The realtime callback *)

\* write_zynmidi(ev) run as one step: the slots, the write index and the
\* status afterwards.
WriteZynmidi(ev) ==
    LET nptr == IF zynmidi_buffer_write + 1 >= ZYNMIDI_BUFFER_SIZE
                THEN 0 ELSE zynmidi_buffer_write + 1
    IN IF nptr = zynmidi_buffer_read
       THEN [buffer |-> zynmidi_buffer, write |-> zynmidi_buffer_write, ret |-> 0]
       ELSE [buffer |-> [zynmidi_buffer EXCEPT ![zynmidi_buffer_write] = ev],
             write |-> nptr, ret |-> 1]

\* The number of passes of the output loop of jack_process over nb queued
\* bytes: it stops after the pass in which i>nframes.
OutputPasses(nb, nframes) ==
    LET n == (nb + 2) \div 3 IN IF n > nframes + 2 THEN nframes + 2 ELSE n

\* An output loop that hands all 3 bytes of every record to the port. The
\* event_size of jack_process distinguishes the function from this one.
OutputEventWhole(data, k) == SubSeq(data, 3 * (k - 1) + 1, 3 * (k - 1) + 3)

\* The event of pass k (from 1): 2 bytes of the record for status nibbles 0xC
\* and 0xD, else 3.
OutputEvent(data, k) ==
    LET pos == 3 * (k - 1) + 1
        event_type == data[pos] \div 16
    IN SubSeq(data, pos, pos + (IF event_type \in {12, 13} THEN 1 ELSE 2))

\* The output half of jack_process: -1 when a pass found i>nframes.
OutputStatus(nb, nframes) == IF (nb + 2) \div 3 > nframes + 1 THEN -1 ELSE 0

\* An override that sets value and leaves subvalue. The assignment of
\* subvalue distinguishes the override of jack_process from this one.
ControlChangeValueOnly(z, ev) ==
    IF z.enabled # 0 /\ z.midi_chan = ev[1] % 16 /\ z.midi_ctrl = ev[2]
    THEN [z EXCEPT !.value = ev[3]]
    ELSE z

\* An inbound Control-Change message ev applied to encoder z.
ControlChange(z, ev) ==
    IF z.enabled # 0 /\ z.midi_chan = ev[1] % 16 /\ z.midi_ctrl = ev[2]
    THEN [z EXCEPT !.value = ev[3], !.subvalue = ev[3] * ZYNCODER_TICKS_PER_RETENT]
    ELSE z

\* The messages that arrive at the input port, and their sizes.
InMessages == { <<177, 10, 100>>, <<176, 1, 1>>, <<195, 5, 0>> }
EventSize(ev) == IF ev[1] \div 16 \in {12, 13} THEN 2 ELSE 3

\* jack_process(nframes, arg) with the messages evs (at most one) at the
\* input port.
Process(nframes, evs) ==
    LET nb == Len(jack_ring_output_buffer)
        passes == OutputPasses(nb, nframes)
        faulted == OutputStatus(nb, nframes) = -1
        scan == ~faulted /\ evs # <<>>
        ev == IF evs # <<>> THEN evs[1] ELSE <<0, 0, 0>>
        event_type == ev[1] \div 16
        w == WriteZynmidi(PackEvent(ev))
    IN /\ jack_ring_output_buffer' = <<>>
       /\ port_out' = [k \in 1 .. passes |-> OutputEvent(jack_ring_output_buffer, k)]
       /\ zyncoders' = IF scan /\ event_type = 11
                       THEN [j \in EncoderSlots |->
                                IF j \in Encoders THEN ControlChange(zyncoders[j], ev)
                                ELSE zyncoders[j]]
                       ELSE zyncoders
       /\ zynmidi_buffer' = IF scan /\ event_type = 12 THEN w.buffer ELSE zynmidi_buffer
       /\ zynmidi_buffer_write' =
              IF scan /\ event_type = 12 THEN w.write ELSE zynmidi_buffer_write
       /\ scanned' = IF scan /\ event_type = 12 /\ w.ret = 1
                     THEN Append(scanned, ev) ELSE scanned
       /\ jack_ring_input_buffer' =
              IF scan /\ event_type \in {11, 12}
                      /\ InRingSpace - jack_ring_input_buffer >= EventSize(ev)
              THEN jack_ring_input_buffer + EventSize(ev)
              ELSE jack_ring_input_buffer
       /\ steps' = steps + 1
       /\ last' = OpW("jack_process", 0, nframes, IF scan THEN 1 ELSE 0,
                      IF scan THEN PackEvent(ev) ELSE 0, IF faulted THEN -1 ELSE 0, 1)
       /\ outlog' = LogPeriod(outlog, port_out', faulted)
       /\ UNCHANGED <<now, switchvars, zynmidi_buffer_read, wr, rd, returned, sends,
                      override, enq, period>>

jack_process ==
    /\ steps < MaxEncSteps
    /\ \E nframes \in Frames, evs \in {<<>>} \cup {<<m>> : m \in InMessages} :
          Process(nframes, evs)

\* The Control-Change loop of jack_process, statement by statement. The
\* callback runs on the realtime thread while update_zyncoder runs on the
\* interrupt thread and set_value_zyncoder on the application's: nothing
\* orders the two stores of the loop with respect to them.
OverrideIdle == [pc |-> "idle", j |-> 0, ev |-> <<0, 0, 0>>, nframes |-> 0]

\* The Control-Change messages that arrive at the input port.
CCMessages == {ev \in InMessages : ev[1] \div 16 = 11}

\* jack_process up to the loop: the output ring is drained (without a
\* fault) and the message ev is found at the input port.
OverrideBegin ==
    /\ override.pc = "idle"
    /\ steps < MaxEncSteps
    /\ \E nframes \in Frames, ev \in CCMessages :
          LET nb == Len(jack_ring_output_buffer)
          IN /\ OutputStatus(nb, nframes) = 0
             /\ port_out' = [k \in 1 .. OutputPasses(nb, nframes) |->
                                OutputEvent(jack_ring_output_buffer, k)]
             /\ override' = [pc |-> "test", j |-> 0, ev |-> ev, nframes |-> nframes]
    /\ jack_ring_output_buffer' = <<>>
    /\ outlog' = LogPeriod(outlog, port_out', FALSE)
    /\ UNCHANGED <<now, switchvars, ringvars, zyncoders, jack_ring_input_buffer, sends,
                   steps, last, enq, period>>

\* for (j=0;j<MAX_NUM_ZYNCODERS;j++) if (zyncoders[j].enabled && ...)
OverrideTest ==
    /\ override.pc = "test"
    /\ override.j < MAX_NUM_ZYNCODERS
    /\ LET z == zyncoders[override.j]
           ev == override.ev
       IN override' =
             IF z.enabled # 0 /\ z.midi_chan = ev[1] % 16 /\ z.midi_ctrl = ev[2]
             THEN [override EXCEPT !.pc = "value"]
             ELSE [override EXCEPT !.j = @ + 1]
    /\ UNCHANGED <<now, switchvars, ringvars, zyncoders, jack_ring_output_buffer,
                   jack_ring_input_buffer, port_out, sends, steps, last, outvars>>

\* zyncoders[j].value=ev.buffer[2];
OverrideStoreValue ==
    /\ override.pc = "value"
    /\ zyncoders' = [zyncoders EXCEPT ![override.j].value = override.ev[3]]
    /\ override' = [override EXCEPT !.pc = "subvalue"]
    /\ UNCHANGED <<now, switchvars, ringvars, jack_ring_output_buffer,
                   jack_ring_input_buffer, port_out, sends, steps, last, outvars>>

\* zyncoders[j].subvalue=ev.buffer[2]*ZYNCODER_TICKS_PER_RETENT;
OverrideStoreSubvalue ==
    /\ override.pc = "subvalue"
    /\ zyncoders' = [zyncoders EXCEPT ![override.j].subvalue =
                        override.ev[3] * ZYNCODER_TICKS_PER_RETENT]
    /\ override' = [override EXCEPT !.pc = "test", !.j = @ + 1]
    /\ UNCHANGED <<now, switchvars, ringvars, jack_ring_output_buffer,
                   jack_ring_input_buffer, port_out, sends, steps, last, outvars>>

\* After the loop the message goes to the inbound ring if it fits, and
\* jack_process returns 0.
OverrideEnd ==
    /\ override.pc = "test"
    /\ override.j >= MAX_NUM_ZYNCODERS
    /\ jack_ring_input_buffer' =
          IF InRingSpace - jack_ring_input_buffer >= EventSize(override.ev)
          THEN jack_ring_input_buffer + EventSize(override.ev)
          ELSE jack_ring_input_buffer
    /\ override' = OverrideIdle
    /\ steps' = steps + 1
    /\ last' = OpW("jack_process", 0, override.nframes, 1, PackEvent(override.ev), 0, 1)
    /\ UNCHANGED <<now, switchvars, ringvars, zyncoders, jack_ring_output_buffer,
                   port_out, sends, outvars>>

\* The outbound ring between its writer and its reader, one call of the
\* jack_ringbuffer library per step. A caller of jack_write_midi_event
\* (zynmidi_set_control, zynmidi_set_program) runs on the application's or
\* the interrupt thread, jack_process on the realtime thread.
EnqIdle == [pc |-> "idle", msg |-> <<0, 0, 0>>]
PeriodIdle == [pc |-> "idle", nframes |-> 0, nb |-> 0, data |-> <<>>]

\* The messages handed to jack_write_midi_event: two Control Changes and a
\* Program Change.
OutMessages == { ControlEvent(1, 10, 5), ControlEvent(0, 1, 100), ProgramEvent(1, 7) }

\* The calls in progress: they count as run when they return.
InProgress == (IF enq.pc = "idle" THEN 0 ELSE 1) + (IF period.pc = "idle" THEN 0 ELSE 1)

\* if (jack_ringbuffer_write_space(jack_ring_output_buffer)>=3) ... else return -1;
EnqueueTest ==
    /\ enq.pc = "idle"
    /\ steps + InProgress < MaxOutSteps
    /\ \E msg \in OutMessages :
          IF WriteSpace(jack_ring_output_buffer) >= 3
          THEN /\ enq' = [pc |-> "write", msg |-> msg]
               /\ UNCHANGED <<steps, last>>
          ELSE /\ enq' = EnqIdle
               /\ steps' = steps + 1
               /\ last' = OpW("jack_write_midi_event", 0, PackEvent(msg), 0, 0, -1, -1)
    /\ UNCHANGED <<now, switchvars, ringvars, zyncoders, jack_ring_output_buffer,
                   jack_ring_input_buffer, port_out, sends, override, period, outlog>>

\* jack_ringbuffer_write(jack_ring_output_buffer, ctrl_event, 3); return 0;
EnqueueWrite ==
    /\ enq.pc = "write"
    /\ LET w == jack_write_midi_event(jack_ring_output_buffer, enq.msg)
       IN /\ jack_ring_output_buffer' = w.ring
          /\ outlog' = LogWrite(outlog, w)
          /\ last' = OpW("jack_write_midi_event", 0, PackEvent(enq.msg), 0, 0, w.ret, w.ret)
    /\ enq' = EnqIdle
    /\ steps' = steps + 1
    /\ UNCHANGED <<now, switchvars, ringvars, zyncoders, jack_ring_input_buffer, port_out,
                   sends, override, period>>

\* int nb=jack_ringbuffer_read_space(jack_ring_output_buffer);
PeriodReadSpace ==
    /\ period.pc = "idle"
    /\ steps + InProgress < MaxOutSteps
    /\ \E nframes \in Frames :
          period' = [pc |-> "read", nframes |-> nframes,
                     nb |-> Len(jack_ring_output_buffer), data |-> <<>>]
    /\ UNCHANGED <<now, switchvars, ringvars, zyncoders, jack_ring_output_buffer,
                   jack_ring_input_buffer, port_out, sends, override, enq, outlog,
                   steps, last>>

\* jack_ringbuffer_read(jack_ring_output_buffer, jack_midi_data, nb)
PeriodRead ==
    /\ period.pc = "read"
    /\ period' = [period EXCEPT !.pc = "emit",
                                !.data = SubSeq(jack_ring_output_buffer, 1, period.nb)]
    /\ jack_ring_output_buffer' =
          SubSeq(jack_ring_output_buffer, period.nb + 1, Len(jack_ring_output_buffer))
    /\ UNCHANGED <<now, switchvars, ringvars, zyncoders, jack_ring_input_buffer, port_out,
                   sends, override, enq, outlog, steps, last>>

\* The output loop over jack_midi_data, and the input half with no message
\* at the input port.
PeriodEmit ==
    /\ period.pc = "emit"
    /\ port_out' = [k \in 1 .. OutputPasses(period.nb, period.nframes) |->
                       OutputEvent(period.data, k)]
    /\ outlog' = LogPeriod(outlog, port_out', OutputStatus(period.nb, period.nframes) = -1)
    /\ period' = PeriodIdle
    /\ steps' = steps + 1
    /\ last' = OpW("jack_process", 0, period.nframes, 0, 0,
                   OutputStatus(period.nb, period.nframes), 1)
    /\ UNCHANGED <<now, switchvars, ringvars, zyncoders, jack_ring_output_buffer,
                   jack_ring_input_buffer, sends, override, enq>>

----------------------------------------------------------------------------
(* Specifications *)

\* What init_zyncoder leaves of the tables and the rings.
InitTables ==
    /\ zynswitches = [i \in Switches |-> ZeroSwitch]
    /\ getcall = GetIdle
    /\ held = [recorded |-> [i \in Switches |-> <<>>], returned |-> [i \in Switches |-> <<>>]]
    /\ zyncoders = [i \in EncoderSlots |-> ZeroEncoder]
    /\ jack_ring_output_buffer = <<>>
    /\ jack_ring_input_buffer = 0
    /\ port_out = <<>>
    /\ sends = 0
    /\ override = OverrideIdle
    /\ enq = EnqIdle
    /\ period = PeriodIdle
    /\ outlog = [accepted |-> <<>>, emitted |-> <<>>, faulted |-> FALSE]
    /\ InitRingVars
    /\ steps = 0
    /\ last = NoOp

\* The switches: set up, edges, the duration read.
InitSwitch == now \in InitClocks /\ InitTables

NextSwitch ==
    \/ \E i \in Switches, pin \in SwitchPins : setup_zynswitch(i, pin)
    \/ \E i \in Switches : update_zynswitch(i)
    \/ \E i \in Switches : get_zynswitch_dtus(i)

SpecSwitch == InitSwitch /\ [][NextSwitch]_vars

\* The expander switches: set up, polled, the duration read. The clock at
\* initialisation is below 2^31 us (40 ms) or above it (3000 s).
PollClocks == {Us(40000), 2 * Us(1500000000)}
InitPoll == now \in PollClocks /\ InitTables

NextPoll ==
    \/ \E i \in Switches, pin \in SwitchPins : setup_zynswitch(i, pin)
    \/ update_expanded_zynswitches
    \/ \E i \in Switches : get_zynswitch_dtus(i)

SpecPoll == InitPoll /\ [][NextPoll]_vars

\* The interrupt thread and the application on the switches: edges run
\* whole, between the read and the store of get_zynswitch_dtus. A switch is
\* set up while no call of get_zynswitch_dtus is in progress.
HeldSetup ==
    getcall.pc = "idle" /\ \E i \in Switches, pin \in SwitchPins : setup_zynswitch(i, pin)

NextHeld ==
    \/ HeldSetup
    \/ \E i \in Switches : update_zynswitch(i)
    \/ \E i \in Switches : GetRead(i)
    \/ GetReset

SpecHeld == InitSwitch /\ [][NextHeld]_vars

\* The ring of returned events, the realtime callback writing it and the
\* application reading it, statement by statement.
InitRing == now \in {Us(40000)} /\ InitTables

NextRing ==
    \/ WriteBegin
    \/ WriteCompare
    \/ WriteStore
    \/ WriteAdvance
    \/ ReadBegin
    \/ ReadLoad
    \/ ReadIncrement
    \/ ReadWrap

SpecRing == InitRing /\ [][NextRing]_vars

\* The same ring when write_zynmidi runs only while no call of read_zynmidi
\* is in progress.
QuietWrite == rd.pc = "idle" /\ (WriteBegin \/ WriteCompare \/ WriteStore \/ WriteAdvance)
AnyRead == ReadBegin \/ ReadLoad \/ ReadIncrement \/ ReadWrap
NextRingQuiet == QuietWrite \/ AnyRead
SpecRingQuiet == InitRing /\ [][NextRingQuiet]_vars

\* The encoders, the outbound ring and the realtime callback, each call a step.
InitEnc == now \in InitClocks /\ InitTables

NextEnc ==
    \/ \E i \in Encoders : setup_zyncoder(i)
    \/ \E i \in Encoders : update_zyncoder(i)
    \/ \E i \in Encoders : set_value_zyncoder(i)
    \/ jack_process

SpecEnc == InitEnc /\ [][NextEnc]_vars

\* The three threads on the encoders: the interrupt thread's edges and the
\* application's calls run whole, between the statements of the realtime
\* callback's Control-Change loop. Encoders are set up while the callback is
\* outside the loop.
RaceSetup == override.pc = "idle" /\ \E i \in Encoders : setup_zyncoder(i)

NextRace ==
    \/ RaceSetup
    \/ \E i \in Encoders : update_zyncoder(i)
    \/ \E i \in Encoders : set_value_zyncoder(i)
    \/ OverrideBegin
    \/ OverrideTest
    \/ OverrideStoreValue
    \/ OverrideStoreSubvalue
    \/ OverrideEnd

SpecRace == InitEnc /\ [][NextRace]_vars

\* Rotation upwards: encoder 0 is set up once, in continuous mode with value
\* 0, and then turned up, one valid quadrature transition (00, 10, 11, 01,
\* 00, ...) after the other.
FreshConfigs == { <<1, 10, 0, 127, 0>>, <<1, 10, 0, 2, 0>> }
FreshClocks == {0, Us(40000), Us(2000000000)}
UpFrom(encoded) == CASE encoded = 0 -> 2 [] encoded = 2 -> 3 [] encoded = 3 -> 1 [] OTHER -> 0

InitFresh == now \in FreshClocks /\ InitTables

FreshSetup == steps = 0 /\ \E c \in FreshConfigs : Setup(0, c)

UpEdge(deltas) ==
    /\ steps > 0
    /\ steps <= MaxUpEdges
    /\ \E dt \in deltas :
          LET encoded == UpFrom(zyncoders[0].last_encoded)
          IN UpdateEdge(0, encoded \div 2, encoded % 2, dt)

\* Slow rotation: a transition every 48 ms or 64 ms.
SlowDeltas == {Us(48000), Us(64000)}
SlowUpEdge == UpEdge(SlowDeltas)
NextSlowUp == FreshSetup \/ SlowUpEdge
SpecSlowUp == InitFresh /\ [][NextSlowUp]_vars

\* Rotation at any speed, bounces included.
TurnUpEdge == UpEdge(EncoderDeltas)
NextTurnUp == FreshSetup \/ TurnUpEdge
SpecTurnUp == InitFresh /\ [][NextTurnUp]_vars

\* Rotation in both directions at any speed: each edge is the valid
\* transition upwards or the valid transition downwards.
DownFrom(encoded) == CASE encoded = 0 -> 1 [] encoded = 1 -> 3 [] encoded = 3 -> 2 [] OTHER -> 0
TurnDownEdge ==
    /\ steps > 0
    /\ steps <= MaxUpEdges
    /\ \E dt \in EncoderDeltas :
          LET encoded == DownFrom(zyncoders[0].last_encoded)
          IN UpdateEdge(0, encoded \div 2, encoded % 2, dt)
NextTurn == FreshSetup \/ TurnUpEdge \/ TurnDownEdge
SpecTurn == InitFresh /\ [][NextTurn]_vars

\* Stepped mode: encoder 0 is set up once with step > 0, its control arrives
\* at the input port with a value below or above the maximum, and its pins
\* change to any levels after any interval.
StepConfigs == { <<0, 1, 1, 3, 2>>, <<0, 1, 0, 7, 3>>, <<0, 1, 5, 5, 1>> }
StepMessages == { <<176, 1, 1>>, <<176, 1, 100>> }
StepSetup == steps = 0 /\ \E c \in StepConfigs : Setup(0, c)
StepProcess ==
    /\ steps > 0
    /\ steps < MaxStepSteps
    /\ \E nframes \in Frames, ev \in StepMessages : Process(nframes, <<ev>>)
StepEdge ==
    /\ steps > 0
    /\ steps < MaxStepSteps
    /\ \E MSB \in Levels, LSB \in Levels, dt \in EncoderDeltas : UpdateEdge(0, MSB, LSB, dt)
NextStep == StepSetup \/ StepProcess \/ StepEdge
SpecStep == InitEnc /\ [][NextStep]_vars

\* Rotation with long pauses: encoder 0 is set up once and turned up, a
\* transition 48 ms or 1294967296 us (21.6 minutes) after the one before;
\* the clock at initialisation is at 40 ms or at 3000 s.
IdleDeltas == {Us(48000), Us(1294967296)}
InitIdle == now \in PollClocks /\ InitTables
IdleUpEdge == UpEdge(IdleDeltas)
NextIdle == FreshSetup \/ IdleUpEdge
SpecIdle == InitIdle /\ [][NextIdle]_vars

\* The outbound path: encoder 0 is set up once, the application sets its
\* value, the realtime callback drains the ring.
\* Its maximum is 2, 127 or 255, and the values set reach 200.
OutConfigs == FreshConfigs \cup { <<1, 10, 0, 255, 0>> }
OutValues == SetValues \cup {200}
OutSetup == steps = 0 /\ \E c \in OutConfigs : Setup(0, c)
OutSet == steps > 0 /\ steps < MaxOutSteps /\ \E v \in OutValues : SetValueCall(0, v)
OutProcess == steps > 0 /\ steps < MaxOutSteps /\ \E nframes \in Frames : Process(nframes, <<>>)
NextOut == OutSetup \/ OutSet \/ OutProcess
SpecOut == InitRing /\ [][NextOut]_vars

\* The outbound ring with its writer and its reader interleaved.
NextDrain ==
    \/ EnqueueTest
    \/ EnqueueWrite
    \/ PeriodReadSpace
    \/ PeriodRead
    \/ PeriodEmit

SpecDrain == InitRing /\ [][NextDrain]_vars

\* Calls with an index past the tables, after any set-up: every operation
\* that takes an index compares it to the size of its table first.
BeyondSwitches == {MAX_NUM_ZYNSWITCHES, MAX_NUM_ZYNSWITCHES + 1}
BeyondEncoders == {MAX_NUM_ZYNCODERS, MAX_NUM_ZYNCODERS + 1}
SwitchOps == {"setup_zynswitch", "update_zynswitch", "get_zynswitch_dtus"}
EncoderOps == {"update_zyncoder", "get_value_zyncoder", "set_value_zyncoder", "send_zyncoder"}

BeyondSwitchCall ==
    steps < MaxEncSteps /\ \E i \in BeyondSwitches, op \in SwitchOps : Ignored(op, i)
BeyondEncoderCall ==
    steps < MaxEncSteps /\ \E i \in BeyondEncoders, op \in EncoderOps : Ignored(op, i)
BeyondSetup ==
    steps < MaxEncSteps /\ \E i \in BeyondEncoders, c \in EncoderConfigs : Setup(i, c)

NextBeyond ==
    \/ \E i \in Encoders : setup_zyncoder(i)
    \/ \E i \in Switches, pin \in SwitchPins : setup_zynswitch(i, pin)
    \/ BeyondSwitchCall
    \/ BeyondEncoderCall
    \/ BeyondSetup
SpecBeyond == InitEnc /\ [][NextBeyond]_vars

----------------------------------------------------------------------------
(* Claims *)

\* C1: a press notification (level 1) to an enabled switch that arrives less
\* than 1000 us after the switch's last recorded transition time leaves the
\* switch's status as it was.
C1_BouncedPressKeepsStatus ==
    [][\A i \in Switches :
          (/\ last'.op = "update_zynswitch" /\ last'.i = i /\ last'.a = 1
           /\ zynswitches[i].enabled = 1
           /\ now' # now
           /\ SwitchDelta(zynswitches[i], now') >= 0
           /\ SwitchDelta(zynswitches[i], now') < Us(1000))
          => zynswitches'[i].status = zynswitches[i].status]_vars

IsPrefix(s, t) == Len(s) <= Len(t) /\ \A k \in 1 .. Len(s) : s[k] = t[k]
PackAll(msgs) == [k \in 1 .. Len(msgs) |-> PackEvent(msgs[k])]

\* C2: every event for which write_zynmidi returned 1 is returned by
\* read_zynmidi exactly once and in the order written: what has been returned
\* is a prefix of what was accepted, and when neither side is inside a call
\* and the ring reads as empty, everything accepted has been returned.
C2_AcceptedReturnedOnceInOrder ==
    /\ IsPrefix(returned, PackAll(scanned))
    /\ (wr.pc = "idle" /\ rd.pc = "idle" /\ zynmidi_buffer_read = zynmidi_buffer_write)
          => Len(returned) = Len(scanned)

\* C10: the n-th event read_zynmidi returns is s | (d1 << 8) | (d2 << 16) of
\* the n-th Program-Change message (s, d1, d2) that the realtime callback
\* scanned while the ring was not full.
C10_ProgramChangeReturnedPacked ==
    \A n \in 1 .. Len(returned) :
        /\ n <= Len(scanned)
        /\ returned[n] = scanned[n][1] + 256 * scanned[n][2] + 65536 * scanned[n][3]
        /\ returned[n] < 2^24

Min(a, b) == IF a < b THEN a ELSE b

\* C3: every enabled continuous-mode encoder has subvalue <= max_subvalue, the
\* stored bound (TICKS_PER_DETENT * max_value), in every reachable state.
C3_SubvalueWithinBound ==
    \A i \in Encoders :
        (zyncoders[i].enabled # 0 /\ zyncoders[i].step = 0)
            => zyncoders[i].subvalue <= zyncoders[i].max_value

\* An edge that update_zyncoder accepts in continuous mode: the encoder is
\* enabled, step is 0 and the interval since the last tick is 1000 us or more.
AcceptedEdge(i) ==
    /\ last'.op = "update_zyncoder" /\ last'.i = i
    /\ zyncoders[i].enabled # 0 /\ zyncoders[i].step = 0
    /\ EncoderDelta(zyncoders[i], now') >= Us(1000)

\* C4: an accepted up edge on a continuous-mode encoder with subvalue <=
\* max_subvalue leaves subvalue <= max_subvalue, and when subvalue was
\* max_subvalue it leaves subvalue there and value at the maximum
\* (max_subvalue / TICKS_PER_DETENT).
C4_UpEdgeClamps ==
    [][\A i \in Encoders :
          (/\ AcceptedEdge(i)
           /\ EncoderUp(zyncoders[i], last'.a)
           /\ zyncoders[i].subvalue <= zyncoders[i].max_value)
          => /\ zyncoders'[i].subvalue <= zyncoders[i].max_value
             /\ zyncoders'[i].subvalue >= zyncoders[i].subvalue
             /\ zyncoders[i].subvalue = zyncoders[i].max_value
                   => /\ zyncoders'[i].subvalue = zyncoders[i].max_value
                      /\ zyncoders'[i].value =
                             zyncoders[i].max_value \div ZYNCODER_TICKS_PER_RETENT]_vars

\* C4's case: after a sequence of up edges, one more was accepted on an
\* encoder that was already at max_subvalue, and it is still there.
C4_Witness ==
    \E i \in Encoders :
        /\ last.op = "update_zyncoder" /\ last.i = i
        /\ steps > 3
        /\ zyncoders[i].enabled # 0 /\ zyncoders[i].step = 0
        /\ zyncoders[i].max_value > 0
        /\ zyncoders[i].tsus = now /\ zyncoders[i].dtus[4] >= Us(1000)
        /\ EncoderUp([zyncoders[i] EXCEPT !.last_encoded = last.from], last.a)
        /\ last.pre = zyncoders[i].max_value
        /\ zyncoders[i].subvalue = zyncoders[i].max_value
        /\ zyncoders[i].value = zyncoders[i].max_value \div ZYNCODER_TICKS_PER_RETENT

\* C5: on the freshly initialized and configured continuous-mode encoder,
\* each of N valid up transitions more than 30 ms apart raises subvalue by
\* exactly 1, up to max_subvalue, and value has risen by at most
\* ceil(N / TICKS_PER_DETENT).
C5_SlowUpAddsOne ==
    [][last'.op = "update_zyncoder"
          => /\ zyncoders'[0].subvalue =
                    Min(zyncoders[0].subvalue + 1, zyncoders[0].max_value)
             /\ zyncoders'[0].value * ZYNCODER_TICKS_PER_RETENT
                    <= (steps' - 1) + (ZYNCODER_TICKS_PER_RETENT - 1)]_vars

\* C6: encoder 0 set up with midi_chan 1, midi_ctrl 10, step 0, value 0,
\* max_value 127, then four up transitions more than 40 ms apart: exactly one
\* Control-Change message has been dispatched, (chan 1, ctrl 10, value 1).
C6_FourSlowTicksOneMessage ==
    (/\ steps = 5
     /\ zyncoders[0].max_value = 127 * ZYNCODER_TICKS_PER_RETENT
     /\ \A k \in 2 .. 4 : zyncoders[0].dtus[k] > Us(40000))
    => /\ sends = 1
       /\ jack_ring_output_buffer = <<177, 10, 1>>

\* The maximum an encoder was configured with.
ConfiguredMax(z) ==
    IF z.step = 0 THEN z.max_value \div ZYNCODER_TICKS_PER_RETENT ELSE z.max_value

\* C7: set_value_zyncoder(i, v) on an enabled encoder, then
\* get_value_zyncoder(i): the result is min(v, max_value).
C7_SetThenGet ==
    [][\A i \in Encoders :
          (last'.op = "set_value_zyncoder" /\ last'.i = i /\ zyncoders[i].enabled # 0)
          => GetValue(zyncoders'[i]) = Min(last'.a, ConfiguredMax(zyncoders[i]))]_vars

\* A set_value_zyncoder call on an enabled encoder with midi_ctrl > 0.
SetWithControl(i) ==
    /\ last'.op = "set_value_zyncoder" /\ last'.i = i
    /\ zyncoders[i].enabled # 0 /\ zyncoders[i].midi_ctrl > 0

\* The outbound ring after one more message for encoder z.
WithMessage(ring, z) == ring \o <<176 + z.midi_chan, z.midi_ctrl, z.value % 256>>

\* C8 as stated: every set_value_zyncoder call on an enabled encoder with
\* midi_ctrl > 0 adds exactly one Control-Change message to the outbound
\* ring, whatever the state of the ring.
C8_SetAlwaysQueuesOne ==
    [][\A i \in Encoders :
          SetWithControl(i)
          => jack_ring_output_buffer' = WithMessage(jack_ring_output_buffer, zyncoders'[i])]_vars

\* C8 amended: the call adds exactly one Control-Change message, whether or
\* not it changed the value, when the ring has 3 free bytes or more; with
\* fewer the ring is left as it was.
C8_SetQueuesOneIfRoom ==
    [][\A i \in Encoders :
          SetWithControl(i)
          => jack_ring_output_buffer' =
                 IF OutRingSpace - Len(jack_ring_output_buffer) >= 3
                 THEN WithMessage(jack_ring_output_buffer, zyncoders'[i])
                 ELSE jack_ring_output_buffer]_vars

\* C8's case: a set_value_zyncoder call that left the value as it was queued
\* its message.
C8_Witness ==
    \E i \in Encoders :
        /\ last.op = "set_value_zyncoder" /\ last.i = i /\ last.w = 0
        /\ zyncoders[i].midi_ctrl > 0
        /\ last.pre = zyncoders[i].value
        /\ jack_ring_output_buffer = WithMessage(<<>>, zyncoders[i])

\* C9: a call of jack_write_midi_event with fewer than 3 free bytes in the
\* outbound ring returns -1 and leaves the ring as it was; with 3 free bytes
\* or more it appends 3 bytes and returns 0.
C9_WriteAllOrNothing ==
    [][last'.w # 1
          => IF OutRingSpace - Len(jack_ring_output_buffer) < 3
             THEN last'.w = -1 /\ jack_ring_output_buffer' = jack_ring_output_buffer
             ELSE /\ last'.w = 0
                  /\ Len(jack_ring_output_buffer') = Len(jack_ring_output_buffer) + 3
                  /\ SubSeq(jack_ring_output_buffer', 1, Len(jack_ring_output_buffer))
                         = jack_ring_output_buffer]_vars

\* C9's case: the ring was filled with 3-byte messages, one more was offered,
\* and it was refused.
C9_Witness ==
    /\ last.w = -1
    /\ Len(jack_ring_output_buffer) % 3 = 0
    /\ OutRingSpace - Len(jack_ring_output_buffer) < 3

\* C11: jack_process with frame budget nframes returns -1 exactly when more
\* than nframes messages are queued for the period, and it never hands more
\* than nframes messages to the output port.
C11_FaultBeyondFrameBudget ==
    [][last'.op = "jack_process"
          => /\ (last'.ret = -1) <=> (Len(jack_ring_output_buffer) \div 3 > last'.a)
             /\ Len(port_out') <= last'.a]_vars

\* The call that made the last step had an index at or past the size of its
\* table.
IndexBeyond(l) ==
    \/ l.op \in SwitchOps /\ l.i >= MAX_NUM_ZYNSWITCHES
    \/ l.op \in EncoderOps \cup {"setup_zyncoder"} /\ l.i >= MAX_NUM_ZYNCODERS

\* C12: an operation called with an index greater than or equal to the size
\* of its table changes no switch and no encoder, nothing outside the tables,
\* and returns NULL or 0.
C12_IndexBeyondIgnored ==
    [][IndexBeyond(last')
          => /\ UNCHANGED <<now, zynswitches, ringvars, encvars>>
             /\ last'.ret = 0]_vars

\* C13: an edge notification to a disabled switch, or one whose sampled level
\* is the switch's status, changes no field of the switch and no other state.
C13_DuplicateEdgeChangesNothing ==
    [][\A i \in Switches :
          (/\ last'.op = "update_zynswitch" /\ last'.i = i
           /\ \/ zynswitches[i].enabled = 0
              \/ last'.a = zynswitches[i].status)
          => UNCHANGED <<now, zynswitches, ringvars, encvars>>]_vars

\* C13's case: a switch that was released earlier has just been notified of
\* the released level again, and the time of its release is still recorded.
C13_Witness ==
    \E i \in Switches :
        /\ last.op = "update_zynswitch" /\ last.i = i /\ last.a = 0
        /\ zynswitches[i].enabled = 1 /\ zynswitches[i].status = 0
        /\ zynswitches[i].tsus > 0 /\ zynswitches[i].tsus # now

\* The last step was jack_process and it scanned a Control-Change message.
ScannedControlChange(l) ==
    l.op = "jack_process" /\ l.from = 1 /\ (l.pre % 256) \div 16 = 11

\* Encoder z matches the scanned message l.pre by channel and controller.
Matches(z, l) ==
    z.enabled # 0 /\ z.midi_chan = l.pre % 16 /\ z.midi_ctrl = (l.pre \div 256) % 256

\* C14: after the realtime callback scans a Control-Change message (c, k,
\* d), every enabled encoder with midi_chan = c and midi_ctrl = k has value
\* d and subvalue d * TICKS_PER_DETENT, every other encoder and every switch
\* is as it was, and no outbound message has been produced.
C14_ControlChangeOverride ==
    [][ScannedControlChange(last')
          => /\ \A j \in Encoders :
                   zyncoders'[j] =
                       IF Matches(zyncoders[j], last')
                       THEN [zyncoders[j] EXCEPT
                                !.value = last'.pre \div 65536,
                                !.subvalue = (last'.pre \div 65536) * ZYNCODER_TICKS_PER_RETENT]
                       ELSE zyncoders[j]
             /\ zyncoders'[MAX_NUM_ZYNCODERS] = zyncoders[MAX_NUM_ZYNCODERS]
             /\ zynswitches' = zynswitches
             /\ sends' = sends
             /\ jack_ring_output_buffer' = <<>>]_vars

\* C14's case: of two enabled encoders, the one that matches the message
\* scanned has its data byte as value, and the other has kept its own.
C14_Witness ==
    /\ ScannedControlChange(last)
    /\ \E j, k \in Encoders :
          /\ Matches(zyncoders[j], last)
          /\ zyncoders[j].value = last.pre \div 65536
          /\ zyncoders[j].subvalue = zyncoders[j].value * ZYNCODER_TICKS_PER_RETENT
          /\ zyncoders[k].enabled # 0 /\ ~Matches(zyncoders[k], last)
          /\ zyncoders[k].value # last.pre \div 65536

\* The events accepted and not yet returned.
Unread == SubSeq(PackAll(scanned), Len(returned) + 1, Len(scanned))

\* The slots from the read index up to the write index hold the unread
\* events, oldest first, and both indices are inside the buffer.
RingHoldsUnread ==
    /\ zynmidi_buffer_read \in Slots /\ zynmidi_buffer_write \in Slots
    /\ Len(Unread) = (zynmidi_buffer_write - zynmidi_buffer_read) % ZYNMIDI_BUFFER_SIZE
    /\ \A k \in 1 .. Len(Unread) :
          zynmidi_buffer[(zynmidi_buffer_read + k - 1) % ZYNMIDI_BUFFER_SIZE] = Unread[k]

\* C15: with no call of read_zynmidi in progress, write_zynmidi returns 0 and
\* leaves the slots and both indices as they were exactly when capacity - 1
\* events are unread, and otherwise stores the event as the newest; so the
\* ring holds the unread events, at most capacity - 1 of them, oldest kept,
\* and both indices are in [0, capacity).
C15_FullRingDropsNewest ==
    /\ [](rd.pc = "idle" => RingHoldsUnread /\ Len(Unread) <= ZYNMIDI_BUFFER_SIZE - 1)
    /\ [][/\ (wr.pc = "cmp" /\ wr'.pc # "cmp")
                => /\ (wr'.pc = "idle") <=> (Len(Unread) = ZYNMIDI_BUFFER_SIZE - 1)
                   /\ UNCHANGED <<zynmidi_buffer, zynmidi_buffer_read,
                                  zynmidi_buffer_write, scanned>>
          /\ (wr.pc = "advance" /\ wr'.pc = "idle")
                => /\ scanned' = Append(scanned, wr.msg)
                   /\ zynmidi_buffer[zynmidi_buffer_write] = wr.ev
                   /\ zynmidi_buffer_write' = (zynmidi_buffer_write + 1) % ZYNMIDI_BUFFER_SIZE
                   /\ UNCHANGED <<zynmidi_buffer, zynmidi_buffer_read>>]_vars

\* C15's case: the ring has wrapped, capacity - 1 events are unread, and the
\* last call of write_zynmidi returned 0 and left them there.
C15_Witness ==
    /\ wr.pc = "idle" /\ rd.pc = "idle"
    /\ wr.n > Len(scanned)
    /\ wr.ev # PackEvent(scanned[Len(scanned)])
    /\ Len(returned) >= 1
    /\ Len(Unread) = ZYNMIDI_BUFFER_SIZE - 1
    /\ RingHoldsUnread

\* C16: every Control-Change message send_zyncoder queues for an encoder with
\* midi_ctrl > 0 has the status byte 0xB0 | midi_chan, the controller byte
\* midi_ctrl and the data byte value & 0x7F.
C16_DataByteSevenBits ==
    [][\A i \in Encoders :
          (last'.i = i /\ last'.w = 0)
          => SubSeq(jack_ring_output_buffer', Len(jack_ring_output_buffer) + 1,
                    Len(jack_ring_output_buffer'))
                 = <<176 + zyncoders'[i].midi_chan, zyncoders'[i].midi_ctrl,
                     zyncoders'[i].value % 128>>]_vars

\* C17: an edge whose (last_encoded, encoded) pair is none of the eight valid
\* quadrature transitions changes nothing of the encoder but last_encoded
\* (subvalue, value, the interval history dtus and the tick timestamp are as
\* they were) and dispatches nothing, in continuous and in stepped mode.
C17_InvalidEdgeOnlyLastEncoded ==
    [][\A i \in Encoders :
          (/\ last'.op = "update_zyncoder" /\ last'.i = i
           /\ zyncoders[i].enabled # 0
           /\ ~EncoderUp(zyncoders[i], last'.a)
           /\ ~EncoderDown(zyncoders[i], last'.a))
          => /\ zyncoders'[i] = [zyncoders[i] EXCEPT !.last_encoded = last'.a]
             /\ sends' = sends
             /\ jack_ring_output_buffer' = jack_ring_output_buffer]_vars

\* C18: in continuous mode an accepted up edge never lowers the encoder's
\* value and an accepted down edge never raises it.
C18_ValueFollowsDirection ==
    [][\A i \in Encoders :
          AcceptedEdge(i)
          => /\ EncoderUp(zyncoders[i], last'.a)
                   => zyncoders'[i].value >= zyncoders[i].value
             /\ EncoderDown(zyncoders[i], last'.a)
                   => zyncoders'[i].value <= zyncoders[i].value]_vars

\* C19: for every enabled continuous-mode encoder, whenever the realtime
\* callback is not inside its Control-Change loop (edges and set_value calls
\* run whole), value lies between subvalue/4 rounded down and subvalue/4
\* rounded up.
C19_ValueDerivableFromSubvalue ==
    override.pc = "idle"
    => \A i \in Encoders :
          zyncoders[i].enabled # 0 /\ zyncoders[i].step = 0
          => /\ zyncoders[i].subvalue \div ZYNCODER_TICKS_PER_RETENT <= zyncoders[i].value
             /\ zyncoders[i].value
                   <= (zyncoders[i].subvalue + ZYNCODER_TICKS_PER_RETENT - 1)
                         \div ZYNCODER_TICKS_PER_RETENT

\* C20: an update_zyncoder call on an enabled encoder, in continuous or in
\* stepped mode, calls send_zyncoder once when it changed the encoder's value
\* and not at all when it did not.
C20_OneDispatchPerValueChange ==
    [][\A i \in Encoders :
          (/\ last'.op = "update_zyncoder" /\ last'.i = i
           /\ steps' = steps + 1
           /\ zyncoders[i].enabled # 0)
          => sends' = sends + (IF zyncoders'[i].value # zyncoders[i].value THEN 1 ELSE 0)]_vars

\* The first edge after setup changed the value of a stepped-mode encoder and
\* was dispatched once.
C20_Witness ==
    /\ steps = 2
    /\ last.op = "update_zyncoder"
    /\ zyncoders[last.i].enabled # 0
    /\ zyncoders[last.i].step > 0
    /\ zyncoders[last.i].value = 1
    /\ sends = 1

\* value of z clamped at max_value, as a stepped-mode edge starts with.
ClampedValue(z) == IF z.value > z.max_value THEN z.max_value ELSE z.value

\* C21: an edge on an enabled stepped-mode encoder leaves value <= max_value;
\* a valid up edge adds step to the clamped value when max_value - value >=
\* step and else leaves the clamped value, a valid down edge subtracts step
\* when value >= step and else leaves it; this is so after any interval, and
\* subvalue, dtus and tsus stay as they were.
C21_SteppedEdge ==
    [][\A i \in Encoders :
          (/\ last'.op = "update_zyncoder" /\ last'.i = i
           /\ steps' = steps + 1
           /\ zyncoders[i].enabled # 0 /\ zyncoders[i].step > 0)
          => LET z == zyncoders[i]
                 v == ClampedValue(z)
             IN /\ zyncoders'[i].value <= z.max_value
                /\ EncoderUp(z, last'.a)
                      => zyncoders'[i].value
                            = IF z.max_value - v >= z.step THEN v + z.step ELSE v
                /\ EncoderDown(z, last'.a)
                      => zyncoders'[i].value = IF v >= z.step THEN v - z.step ELSE v
                /\ zyncoders'[i].subvalue = z.subvalue
                /\ zyncoders'[i].dtus = z.dtus
                /\ zyncoders'[i].tsus = z.tsus]_vars

\* Control value 100 arrived for a stepped encoder (its subvalue is 400) and
\* the edge after it, a valid up edge, left value at the maximum.
C21_Witness ==
    /\ steps = 3
    /\ last.op = "update_zyncoder"
    /\ last.from * 4 + last.a \in {13, 4, 2, 11}
    /\ zyncoders[0].enabled # 0 /\ zyncoders[0].step > 0
    /\ zyncoders[0].subvalue = 400
    /\ zyncoders[0].value = zyncoders[0].max_value

\* C22: a pass of update_expanded_zynswitches applies the debounce step of
\* update_zynswitch, with the level it sampled and its clock reading, to
\* every enabled switch on an expander pin, whatever the outcome for the
\* other switches.
C22_PollProcessesEverySwitch ==
    [][last'.op = "update_expanded_zynswitches" /\ steps' = steps + 1
          => \A i \in Switches :
                zynswitches[i].enabled # 0 /\ zynswitches[i].pin >= 100
                => zynswitches'[i] = UpdateSwitch(zynswitches[i], Level(last'.a, i), now')]_vars

\* C23: while no call of get_zynswitch_dtus is in progress, the one duration
\* recorded for a switch since its setup is either still held and was never
\* returned, or it was returned by one call and the switch holds 0.
C23_DurationReturnedOnce ==
    getcall.pc = "idle"
    => \A i \in Switches :
          Len(held.recorded[i]) = 1
          => \/ /\ zynswitches[i].dtus = held.recorded[i][1]
                /\ held.returned[i] = <<>>
             \/ /\ zynswitches[i].dtus = 0
                /\ held.returned[i] = held.recorded[i]

\* A message as the output port is to see it: 2 bytes when the high nibble
\* of its status is 0xC or 0xD, else 3.
Trimmed(msg) == SubSeq(msg, 1, IF msg[1] \div 16 \in {12, 13} THEN 2 ELSE 3)

\* The messages in a run of queued bytes, 3 bytes each, as the port is to
\* see them.
Messages(bytes) ==
    [k \in 1 .. Len(bytes) \div 3 |-> Trimmed(SubSeq(bytes, 3 * k - 2, 3 * k))]

\* The bytes queued and not yet handed to the port: those the period in
\* progress has read, then those in the ring.
QueuedBytes == (IF period.pc = "emit" THEN period.data ELSE <<>>) \o jack_ring_output_buffer

\* C24: with enqueues and periods interleaved, the ring always holds a
\* multiple of 3 bytes; as long as no period has faulted, the events emitted
\* so far followed by the messages still queued are the messages whose
\* enqueue returned 0, each once, in enqueue order, 2 bytes long for status
\* nibbles 0xC and 0xD and 3 otherwise; and a period takes from the ring
\* all the bytes that were queued when it asked for the read space.
C24_AcceptedEmittedOnceInOrder ==
    /\ [](/\ Len(jack_ring_output_buffer) % 3 = 0
          /\ ~outlog.faulted
                => outlog.emitted \o Messages(QueuedBytes)
                      = [k \in 1 .. Len(outlog.accepted) |-> Trimmed(outlog.accepted[k])])
    /\ [][/\ period.pc = "idle" /\ period'.pc = "read"
                => period'.nb = Len(jack_ring_output_buffer)
          /\ period.pc = "read" /\ period'.pc = "emit"
                => /\ period'.data = SubSeq(jack_ring_output_buffer, 1, period.nb)
                   /\ Len(jack_ring_output_buffer')
                         = Len(jack_ring_output_buffer) - period.nb]_vars

\* A period that did not fault has ended; a Program Change went out with 2
\* bytes and a Control Change with 3, and a message enqueued while the
\* period ran is still in the ring.
C24_Witness ==
    /\ last.op = "jack_process" /\ last.ret = 0
    /\ ~outlog.faulted
    /\ \E k \in 1 .. Len(outlog.emitted) : Len(outlog.emitted[k]) = 2
    /\ \E k \in 1 .. Len(outlog.emitted) : Len(outlog.emitted[k]) = 3
    /\ Len(jack_ring_output_buffer) = 3
    /\ Len(outlog.accepted) = 3
    /\ steps = 4

\* delta + h[1] + h[2] + h[3] + h[4] < bound, the sum taken exactly (in
\* fifths, so that every intermediate value fits TLC's integers).
SumBelow(delta, h, bound) ==
    LET n == ZYNCODER_TICKS_PER_RETENT + 1
        q == (delta \div n) + (h[1] \div n) + (h[2] \div n) + (h[3] \div n) + (h[4] \div n)
        r == (delta % n) + (h[1] % n) + (h[2] % n) + (h[3] % n) + (h[4] % n)
    IN q <= bound \div n /\ n * q + r < bound

\* The acceleration policy on the exact average: avg < 10000 us is sum <
\* 50000 us, avg < 30000 us is sum < 150000 us.
ExactDsval(delta, h) ==
    IF SumBelow(delta, h, Us(50000)) THEN ZYNCODER_TICKS_PER_RETENT
    ELSE IF SumBelow(delta, h, Us(150000)) THEN ZYNCODER_TICKS_PER_RETENT \div 2
    ELSE 1

\* C25: an accepted continuous-mode tick moves subvalue by the increment the
\* acceleration policy gives for the exact average of delta and the four
\* stored intervals (up to the clamps at max_value and 0), and leaves in
\* dtus its last three entries followed by delta.
C25_IncrementFromExactAverage ==
    [][\A i \in Encoders :
          AcceptedEdge(i)
          => LET z == zyncoders[i]
                 delta == EncoderDelta(z, now')
                 dsval == ExactDsval(delta, z.dtus)
             IN /\ EncoderUp(z, last'.a) => zyncoders'[i].subvalue = SubvalueUp(z, dsval)
                /\ EncoderDown(z, last'.a) => zyncoders'[i].subvalue = SubvalueDown(z, dsval)
                /\ EncoderUp(z, last'.a) \/ EncoderDown(z, last'.a)
                      => zyncoders'[i].dtus = <<z.dtus[2], z.dtus[3], z.dtus[4], delta>>]_vars

====
